---- MODULE Spec2Model ----
(***************************************************************************)
(* A model of the psrdb command line client: main (scripts/psrdb.py) and   *)
(* the Pulsar, Calibration, Observation and Toa tables.                    *)
(*                                                                         *)
(* Python values are tagged records [k, v]; a str is the tuple of its      *)
(* characters.  The argparse Namespace is a function from the dest names   *)
(* the chosen sub-parser registers to values; reading a name outside its   *)
(* domain is Python's AttributeError.  A call binds positional and keyword *)
(* arguments to the callee's parameter list as Python does, so a call      *)
(* with too many or too few arguments is a TypeError.                      *)
(***************************************************************************)
EXTENDS Integers, Sequences, FiniteSets, TLC

(* ------------------------------ bounds --------------------------------- *)

\* the largest number of lines of the file read by `toa create`
MaxLines == 3

\* the largest number of optional arguments given on a command line
MaxGiven == 2

(* ------------------------------ values --------------------------------- *)

\* Every value is [k, v]: k its Python type and v its text as a tuple of
\* strings (the characters of a str, the digits of a number).
None == [k |-> "none", v |-> <<>>]

PyBool(b) == [k |-> "bool", v |-> IF b THEN <<"True">> ELSE <<"False">>]

PyStr(s) == [k |-> "str", v |-> s]

\* a list of str: the characters of each element, each closed by ","
PyList(s) == [k |-> "list", v |-> s]

IsNone(x) == x.k = "none"

IsEmptyStr(x) == x.k = "str" /\ Len(x.v) = 0

\* Python truthiness, as used by `if minimum_nsubs:`
Truthy(x) ==
    CASE x.k = "none" -> FALSE
      [] x.k = "bool" -> x.v = <<"True">>
      [] x.k \in {"int", "float"} -> \E j \in 1..Len(x.v) : x.v[j] # "0"
      [] OTHER -> Len(x.v) > 0

Digits == <<"0", "1", "2", "3", "4", "5", "6", "7", "8", "9">>

IsDigit(c) == \E i \in 1..10 : Digits[i] = c

DigitVal(c) == (CHOOSE i \in 1..10 : Digits[i] = c) - 1

Pad2(n) == <<Digits[(n \div 10) + 1], Digits[(n % 10) + 1]>>

Pad4(n) == Pad2(n \div 100) \o Pad2(n % 100)

\* the decimal digits of n in 0..99
Decimal(n) == IF n < 10 THEN <<Digits[n + 1]>> ELSE Pad2(n)

PyInt(n) == [k |-> "int", v |-> Decimal(n)]

PyFloat(n) == [k |-> "float", v |-> Decimal(n)]

(* ------------------- datetime.strptime and isoformat ------------------- *)

\* the number of leading digits of s from position p, at most w
RECURSIVE DigitRun(_, _, _)
DigitRun(s, p, w) ==
    IF w = 0 \/ p > Len(s) \/ ~IsDigit(s[p]) THEN 0
    ELSE 1 + DigitRun(s, p + 1, w - 1)

RECURSIVE Number(_, _, _)
Number(s, p, n) ==
    IF n = 0 THEN 0
    ELSE 10 * Number(s, p, n - 1) + DigitVal(s[p + n - 1])

\* the widths a directive's regular expression accepts
MinWidth(d) == IF d = "%Y" THEN 4 ELSE 1

MaxWidth(d) == IF d = "%Y" THEN 4 ELSE 2

\* the values a directive's regular expression accepts
InRange(d, n) ==
    CASE d = "%Y" -> TRUE
      [] d = "%m" -> n \in 1..12
      [] d = "%d" -> n \in 1..31
      [] d = "%H" -> n \in 0..23
      [] d = "%M" -> n \in 0..59
      [] d = "%S" -> n \in 0..61

IsDirective(d) == d \in {"%Y", "%m", "%d", "%H", "%M", "%S"}

NoMatch == [ok |-> FALSE, Y |-> 0, m |-> 0, d |-> 0, H |-> 0, M |-> 0, S |-> 0]

\* _strptime: match the whole of s against the format items fmt[i..];
\* acc carries the fields read so far.  Every directive of the formats used
\* here is followed by a literal that is no digit (or by the end), so the
\* regular expression's alternatives pick the maximal digit run.
RECURSIVE Match(_, _, _, _, _)
Match(fmt, i, s, p, acc) ==
    IF i > Len(fmt) THEN
        IF p = Len(s) + 1 THEN acc ELSE NoMatch
    ELSE IF IsDirective(fmt[i]) THEN
        LET n == DigitRun(s, p, MaxWidth(fmt[i]))
            val == Number(s, p, n)
            key == fmt[i]
        IN  IF n < MinWidth(key) \/ ~InRange(key, val) THEN NoMatch
            ELSE Match(fmt, i + 1, s, p + n,
                       CASE key = "%Y" -> [acc EXCEPT !.Y = val]
                         [] key = "%m" -> [acc EXCEPT !.m = val]
                         [] key = "%d" -> [acc EXCEPT !.d = val]
                         [] key = "%H" -> [acc EXCEPT !.H = val]
                         [] key = "%M" -> [acc EXCEPT !.M = val]
                         [] key = "%S" -> [acc EXCEPT !.S = val])
    ELSE IF p <= Len(s) /\ s[p] = fmt[i] THEN Match(fmt, i + 1, s, p + 1, acc)
    ELSE NoMatch

IsLeap(y) == (y % 4 = 0 /\ y % 100 # 0) \/ y % 400 = 0

DaysInMonth(y, m) ==
    IF m = 2 THEN (IF IsLeap(y) THEN 29 ELSE 28)
    ELSE IF m \in {4, 6, 9, 11} THEN 30 ELSE 31

\* datetime.strptime(s, fmt): ok = FALSE stands for the ValueError raised
\* when s does not match fmt or names no valid datetime
strptime(s, fmt) ==
    LET r == Match(fmt, 1, s, 1, [NoMatch EXCEPT !.ok = TRUE, !.m = 1, !.d = 1])
    IN  IF r.ok /\ r.Y >= 1 /\ r.d <= DaysInMonth(r.Y, r.m) /\ r.S <= 59
        THEN r ELSE NoMatch

\* f"{d.date()}T{d.time()}+00:00"
isoformat(d) ==
    Pad4(d.Y) \o <<"-">> \o Pad2(d.m) \o <<"-">> \o Pad2(d.d) \o <<"T">>
    \o Pad2(d.H) \o <<":">> \o Pad2(d.M) \o <<":">> \o Pad2(d.S)
    \o <<"+", "0", "0", ":", "0", "0">>

\* the format string of Observation.list: '%Y-%m-%d-%H:%M:%S'
ListTimeFormat == <<"%Y", "-", "%m", "-", "%d", "-", "%H", ":", "%M", ":", "%S">>

(* ------------------------- configure_parsers --------------------------- *)

\* one add_argument call: dest, whether it is optional ("--dest"), its type
\* ("int", "str", "float", "bool", or "flag" for action="store_true") and
\* whether it has nargs='+'
Pos(dest, type) == [dest |-> dest, opt |-> FALSE, type |-> type, many |-> FALSE]

Opt(dest, type) == [dest |-> dest, opt |-> TRUE, type |-> type, many |-> FALSE]

Flag(dest) == [dest |-> dest, opt |-> TRUE, type |-> "flag", many |-> FALSE]

OptMany(dest, type) == [dest |-> dest, opt |-> TRUE, type |-> type, many |-> TRUE]

\* Each configure_parsers is the record of the sub-parsers it adds, one
\* field per subcommand, holding the arguments added to it in order.
Pulsar_configure_parsers ==
    [list |-> <<Opt("id", "int"), Opt("name", "str")>>,
     create |-> <<Pos("name", "str"), Opt("comment", "str")>>,
     update |-> <<Pos("id", "int"), Pos("name", "str"), Opt("comment", "str")>>,
     delete |-> <<Pos("id", "int")>>]

Calibration_configure_parsers ==
    [list |-> <<Opt("id", "int"), Opt("type", "str")>>,
     create |-> <<Pos("delay_cal_id", "str"), Pos("type", "str"), Pos("location", "str")>>,
     update |-> <<Pos("id", "int"), Pos("type", "str"), Pos("location", "str")>>,
     delete |-> <<Pos("id", "int")>>]

Observation_write_arguments ==
    <<Pos("target", "int"), Pos("calibration", "int"), Pos("telescope", "int"),
      Pos("instrument_config", "int"), Pos("project", "int"), Pos("config", "str"),
      Pos("utc", "str"), Pos("duration", "float"), Pos("nant", "int"),
      Pos("nanteff", "int"), Pos("suspect", "bool"), Pos("comment", "str")>>

Observation_configure_parsers ==
    [list |-> <<Opt("id", "int"), Opt("target_id", "int"), OptMany("pulsar", "str"),
                Opt("telescope_id", "int"), Opt("telescope_name", "str"),
                Opt("instrumentconfig_id", "int"), Opt("instrumentconfig_name", "str"),
                Opt("project_id", "int"), Opt("project_code", "str"),
                Opt("utcs", "str"), Opt("utce", "str")>>,
     create |-> Observation_write_arguments,
     update |-> <<Pos("id", "int")>> \o Observation_write_arguments,
     delete |-> <<Pos("id", "int")>>]

Toa_configure_parsers ==
    [list |-> <<Opt("id", "int"), Opt("processing", "int"), Opt("folding", "int"),
                Opt("ephemeris", "int"), Opt("template", "int")>>,
     create |-> <<Pos("pipeline_run_id", "int"), Pos("ephemeris_id", "int"),
                  Pos("template_id", "int"), Pos("toa_path", "str"),
                  Flag("dm_corrected"), Flag("minimum_nsubs"), Flag("maximum_nsubs")>>,
     update |-> <<Pos("id", "int"), Pos("processing", "int"), Pos("folding", "int"),
                  Pos("ephemeris", "int"), Pos("template", "int"), Pos("flags", "str"),
                  Pos("frequency", "float"), Pos("mjd", "str"), Pos("site", "str"),
                  Pos("uncertainty", "float"), Pos("quality", "str"),
                  Pos("comment", "str")>>,
     delete |-> <<Pos("id", "int")>>,
     download |-> <<Pos("pulsar", "str"), Opt("id", "int"), Opt("pipeline_run_id", "int"),
                    Flag("dm_corrected"), Flag("minimum_nsubs"), Flag("maximum_nsubs"),
                    Opt("nchan", "int")>>]

\* get_name of each table
Pulsar_get_name == "pulsar"

Calibration_get_name == "calibration"

Observation_get_name == "observation"

Toa_get_name == "toa"

\* main's `tables` list, restricted to the classes whose source is at hand
\* (Telescope, MainProject, Project, Ephemeris, Template, PipelineRun,
\* PulsarFoldResult, PipelineImage and Residual are imported from modules
\* that are not)
tables == <<"Pulsar", "Calibration", "Observation", "Toa">>

get_name(t) ==
    CASE t = "Pulsar" -> Pulsar_get_name
      [] t = "Calibration" -> Calibration_get_name
      [] t = "Observation" -> Observation_get_name
      [] t = "Toa" -> Toa_get_name

configure_parsers(t) ==
    CASE t = "Pulsar" -> Pulsar_configure_parsers
      [] t = "Calibration" -> Calibration_configure_parsers
      [] t = "Observation" -> Observation_configure_parsers
      [] t = "Toa" -> Toa_configure_parsers

\* main's `configured` list: one entry per table, in order
configured == [i \in 1..Len(tables) |-> [name |-> get_name(tables[i]), table |-> tables[i]]]

(* --------------------------- command lines ----------------------------- *)

Letters == <<"a", "b", "c", "d", "e", "f", "g", "h", "i", "j", "k", "l", "m">>

\* timestamps given to --utcs and --utce
\* "2023-01-02T03:04:05+00:00"
TsHelp == PyStr(<<"2", "0", "2", "3", "-", "0", "1", "-", "0", "2", "T", "0", "3", ":", "0", "4", ":", "0", "5", "+", "0", "0", ":", "0", "0">>)

\* "2023-01-02-03:04:05"
TsDashed == PyStr(<<"2", "0", "2", "3", "-", "0", "1", "-", "0", "2", "-", "0", "3", ":", "0", "4", ":", "0", "5">>)

\* "2023-1-2-3:4:5"
TsShort == PyStr(<<"2", "0", "2", "3", "-", "1", "-", "2", "-", "3", ":", "4", ":", "5">>)

\* "2023-02-30-00:00:00"
TsBadDay == PyStr(<<"2", "0", "2", "3", "-", "0", "2", "-", "3", "0", "-", "0", "0", ":", "0", "0", ":", "0", "0">>)

\* The values argparse stores for the k-th argument of a sub-parser when the
\* command line gives it.  Every argument gets a value of its own (its
\* position k), so that a variable bound from the wrong argument shows.
ArgValues(a, k) ==
    CASE a.dest = "utcs" -> {PyStr(<<>>), TsHelp, TsDashed, TsShort, TsBadDay}
      [] a.dest = "utce" -> {TsHelp, TsDashed}
      [] a.many -> {PyList(<<Letters[k], ",">>)}
      [] a.type = "int" -> {PyInt(k)}
      [] a.type = "float" -> {PyFloat(k)}
      [] a.type = "bool" -> {PyBool(TRUE)}
      [] a.type = "flag" -> {PyBool(TRUE)}
      [] a.type = "str" -> {PyStr(<<Letters[k]>>)}

\* what argparse stores for an optional argument that is not given
ArgDefault(a) == IF a.type = "flag" THEN PyBool(FALSE) ELSE None

\* the Namespaces parse_args can return for the first n arguments of a
\* sub-parser, on top of the Namespaces `base` of the parent parser, for the
\* command lines that give at most `given` of the optional arguments
RECURSIVE Namespaces(_, _, _, _)
Namespaces(specs, n, base, given) ==
    IF n = 0 THEN base
    ELSE IF ~specs[n].opt THEN
        {ns @@ (specs[n].dest :> val) :
            ns \in Namespaces(specs, n - 1, base, given), val \in ArgValues(specs[n], n)}
    ELSE
        {ns @@ (specs[n].dest :> ArgDefault(specs[n])) :
            ns \in Namespaces(specs, n - 1, base, given)}
        \cup
        (IF given = 0 THEN {}
         ELSE {ns @@ (specs[n].dest :> val) :
                 ns \in Namespaces(specs, n - 1, base, given - 1),
                 val \in ArgValues(specs[n], n)})

\* GraphQLTable.get_default_parser: -u/--url and -t/--token default to
\* $PSRDB_URL and $PSRDB_TOKEN and are None when neither is given; -v/--verbose
\* and -vv/--very_verbose are flags
DefaultNamespaces ==
    {("url" :> u) @@ ("token" :> t) @@ ("verbose" :> PyBool(v)) @@ ("very_verbose" :> PyBool(vv)) :
        u \in {None, PyStr(<<"u">>)}, t \in {None, PyStr(<<"t">>)},
        v \in BOOLEAN, vv \in BOOLEAN}

\* the lines f.readlines() can return: each ends with "\n", but for the last
\* line of a file that does not end with a newline
DataLines == {<<"x", "\n">>, <<"y", "\n">>}

RECURSIVE FilesOfLength(_)
FilesOfLength(n) ==
    IF n = 0 THEN {<<>>}
    ELSE {Append(f, l) : f \in FilesOfLength(n - 1), l \in DataLines}

Files ==
    LET whole == UNION {FilesOfLength(n) : n \in 0..MaxLines}
    IN  whole \cup {[f EXCEPT ![Len(f)] = <<f[Len(f)][1]>>] : f \in whole \ {<<>>}}

(* ---------------------------- Python calls ----------------------------- *)

\* a parameter of a method: required, or with a default
Req(name) == [name |-> name, req |-> TRUE, def |-> None]

Dflt(name, def) == [name |-> name, req |-> FALSE, def |-> def]

\* an argument expression at a call site: `args.attr`, passed positionally
\* (kw = "") or as the keyword kw
A(attr) == [kw |-> "", attr |-> attr]

K(kw, attr) == [kw |-> kw, attr |-> attr]

\* what a call or a whole handler does: the exception it raises ("none"
\* when it returns), the requests handed to the client in order, and the
\* kind of value returned
Raise(e, sent) == [error |-> e, sent |-> sent, response |-> "unset"]

Return(sent, response) == [error |-> "none", sent |-> sent, response |-> response]

\* a request handed to the client: mutation_graphql sends self.mutation_name
\* with self.variables, list_graphql sends a query on the table with the
\* filter list; payload is the sequence of [field, value] in source order
Mutation(name, variables) == [op |-> "mutation", name |-> name, payload |-> variables]

Query(table, filters) == [op |-> "query", name |-> table, payload |-> filters]

F(field, value) == [field |-> field, value |-> value]

PositionalCount(call) == Cardinality({j \in 1..Len(call) : call[j].kw = ""})

ParamIndex(params, name) == CHOOSE j \in 1..Len(params) : params[j].name = name

\* The first argument expression whose attribute the Namespace lacks, or 0:
\* Python evaluates the argument expressions left to right before the call.
FirstMissing(call, ns) ==
    IF \E j \in 1..Len(call) : call[j].attr \notin DOMAIN ns
    THEN CHOOSE j \in 1..Len(call) :
            /\ call[j].attr \notin DOMAIN ns
            /\ \A h \in 1..(j - 1) : call[h].attr \in DOMAIN ns
    ELSE 0

\* whether the arguments of `call` fit the parameter list: not more
\* positionals than parameters, no unknown or doubly bound keyword, and every
\* required parameter bound
Fits(params, call) ==
    LET np == PositionalCount(call)
        names == {params[j].name : j \in 1..Len(params)}
        kws == {call[j].kw : j \in 1..Len(call)} \ {""}
    IN  /\ np <= Len(params)
        /\ kws \subseteq names
        /\ \A w \in kws : ParamIndex(params, w) > np
        /\ \A j \in 1..Len(params) :
              params[j].req => (j <= np \/ params[j].name \in kws)

\* the parameters as bound by a call that fits
Bind(params, call, ns) ==
    LET np == PositionalCount(call)
    IN  [name \in {params[j].name : j \in 1..Len(params)} |->
            LET j == ParamIndex(params, name)
            IN  IF j <= np THEN ns[call[j].attr]
                ELSE IF \E h \in 1..Len(call) : call[h].kw = name
                THEN ns[call[CHOOSE h \in 1..Len(call) : call[h].kw = name].attr]
                ELSE params[j].def]

\* self.method(call...) with the Namespace ns: AttributeError on the first
\* missing attribute, TypeError when the arguments do not fit the parameter
\* list, else what the body does
Invoke(params, call, ns, body) ==
    IF FirstMissing(call, ns) # 0 THEN Raise("AttributeError", <<>>)
    ELSE IF ~Fits(params, call) THEN Raise("TypeError", <<>>)
    ELSE body

(* ------------------------------- Pulsar -------------------------------- *)

\* create_pulsar_paragraph(pulsar_names=[name])[0], a text from a library
\* outside this repository
PulsarParagraph == PyStr(<<"p">>)

Pulsar_list_params == <<Dflt("id", None), Dflt("name", None)>>

Pulsar_list(call, ns) ==
    LET b == Bind(Pulsar_list_params, call, ns)
        result == Return(<<Query("pulsar", <<F("name", b.name)>>)>>, "list_result")
    IN  Invoke(Pulsar_list_params, call, ns, result)

Pulsar_create_params == <<Req("name"), Dflt("comment", None)>>

Pulsar_create(call, ns) ==
    LET b == Bind(Pulsar_create_params, call, ns)
        result == LET comment == IF IsNone(b.comment) THEN PulsarParagraph ELSE b.comment
                  IN  Return(<<Mutation("createPulsar", <<F("name", b.name), F("comment", comment)>>)>>,
                             "client_response")
    IN  Invoke(Pulsar_create_params, call, ns, result)

Pulsar_update_params == <<Req("id"), Req("name"), Req("comment")>>

Pulsar_update(call, ns) ==
    LET b == Bind(Pulsar_update_params, call, ns)
        result == LET comment == IF IsNone(b.comment) THEN PulsarParagraph ELSE b.comment
                  IN  Return(<<Mutation("updatePulsar",
                                        <<F("id", b.id), F("name", b.name), F("comment", comment)>>)>>,
                             "client_response")
    IN  Invoke(Pulsar_update_params, call, ns, result)

Pulsar_delete_params == <<Req("id")>>

Pulsar_delete(call, ns) ==
    LET b == Bind(Pulsar_delete_params, call, ns)
        result == Return(<<Mutation("deletePulsar", <<F("id", b.id)>>)>>, "client_response")
    IN  Invoke(Pulsar_delete_params, call, ns, result)

(* ----------------------------- Calibration ----------------------------- *)

Calibration_list_params == <<Dflt("id", None), Dflt("type", None)>>

Calibration_list(call, ns) ==
    LET b == Bind(Calibration_list_params, call, ns)
        result == Return(<<Query("calibration", <<F("id", b.id), F("type", b.type)>>)>>, "list_result")
    IN  Invoke(Calibration_list_params, call, ns, result)

Calibration_create_params == <<Req("schedule_block_id"), Req("type"), Req("location")>>

Calibration_create(call, ns) ==
    LET b == Bind(Calibration_create_params, call, ns)
        result == Return(<<Mutation("createCalibration",
                                    <<F("schedule_block_id", b.schedule_block_id),
                                      F("calibration_type", b.type),
                                      F("location", b.location)>>)>>,
                         "client_response")
    IN  Invoke(Calibration_create_params, call, ns, result)

Calibration_update_params ==
    <<Req("id"), Req("schedule_block_id"), Req("type"), Req("location")>>

Calibration_update(call, ns) ==
    LET b == Bind(Calibration_update_params, call, ns)
        result == Return(<<Mutation("updateCalibration",
                                    <<F("id", b.id),
                                      F("schedule_block_id", b.schedule_block_id),
                                      F("calibration_type", b.type),
                                      F("location", b.location)>>)>>,
                         "client_response")
    IN  Invoke(Calibration_update_params, call, ns, result)

Calibration_delete_params == <<Req("id")>>

Calibration_delete(call, ns) ==
    LET b == Bind(Calibration_delete_params, call, ns)
        result == Return(<<Mutation("deleteCalibration", <<F("id", b.id)>>)>>, "client_response")
    IN  Invoke(Calibration_delete_params, call, ns, result)

(* ----------------------------- Observation ----------------------------- *)

Observation_list_params ==
    <<Dflt("id", None), Dflt("pulsar_name", None), Dflt("telescope_name", None),
      Dflt("project_id", None), Dflt("project_short", None), Dflt("utcs", None),
      Dflt("utce", None), Dflt("obs_type", PyStr(<<"f", "o", "l", "d">>))>>

\* the "Convert dates to correct format" step of Observation.list for one
\* of utcs, utce: ok = FALSE stands for strptime's ValueError
ConvertDate(utc) ==
    IF IsEmptyStr(utc) THEN [ok |-> TRUE, value |-> None]
    ELSE IF ~IsNone(utc) THEN
        LET d == strptime(utc.v, ListTimeFormat)
        IN  [ok |-> d.ok, value |-> PyStr(isoformat(d))]
    ELSE [ok |-> TRUE, value |-> utc]

EmptyToNone(x) == IF IsEmptyStr(x) THEN None ELSE x

Observation_list(call, ns) ==
    LET b == Bind(Observation_list_params, call, ns)
        result == LET utcs == ConvertDate(b.utcs)
                      utce == ConvertDate(b.utce)
                  IN  IF ~utcs.ok \/ ~utce.ok THEN Raise("ValueError", <<>>)
                      ELSE Return(<<Query("observation",
                                          <<F("id", b.id),
                                            F("pulsar_Name", EmptyToNone(b.pulsar_name)),
                                            F("telescope_Name", b.telescope_name),
                                            F("project_Id", b.project_id),
                                            F("project_Short", EmptyToNone(b.project_short)),
                                            F("utcStartGte", utcs.value),
                                            F("utcStartLte", utce.value),
                                            F("obsType", b.obs_type)>>)>>,
                                  "list_result")
    IN  Invoke(Observation_list_params, call, ns, result)

Observation_create_params ==
    <<Req("pulsarName"), Req("telescopeName"), Req("projectCode"), Req("calibrationId"),
      Req("ephemerisText"), Req("frequency"), Req("bandwidth"), Req("nchan"),
      Req("beam"), Req("nant"), Req("nantEff"), Req("npol"),
      Req("obsType"), Req("utcStart"), Req("raj"), Req("decj"),
      Req("duration"), Req("nbit"), Req("tsamp"), Req("foldNbin"),
      Req("foldNchan"), Req("foldTsubint"), Req("filterbankNbit"), Req("filterbankNpol"),
      Req("filterbankNchan"), Req("filterbankTsamp"), Req("filterbankDm")>>

Observation_write_variables(b) ==
        <<F("pulsarName", b.pulsarName), F("telescopeName", b.telescopeName), F("projectCode", b.projectCode),
          F("calibrationId", b.calibrationId), F("ephemerisText", b.ephemerisText), F("frequency", b.frequency),
          F("bandwidth", b.bandwidth), F("nchan", b.nchan), F("beam", b.beam),
          F("nant", b.nant), F("nantEff", b.nantEff), F("npol", b.npol),
          F("obsType", b.obsType), F("utcStart", b.utcStart), F("raj", b.raj),
          F("decj", b.decj), F("duration", b.duration), F("nbit", b.nbit),
          F("tsamp", b.tsamp), F("foldNbin", b.foldNbin), F("foldNchan", b.foldNchan),
          F("foldTsubint", b.foldTsubint), F("filterbankNbit", b.filterbankNbit), F("filterbankNpol", b.filterbankNpol),
          F("filterbankNchan", b.filterbankNchan), F("filterbankTsamp", b.filterbankTsamp), F("filterbankDm", b.filterbankDm)>>

Observation_create(call, ns) ==
    LET b == Bind(Observation_create_params, call, ns)
        result == Return(<<Mutation("createObservation", Observation_write_variables(b))>>,
                         "client_response")
    IN  Invoke(Observation_create_params, call, ns, result)

Observation_update_params == <<Req("id")>> \o Observation_create_params

Observation_update(call, ns) ==
    LET b == Bind(Observation_update_params, call, ns)
        result == Return(<<Mutation("updateObservation",
                                    <<F("id", b.id)>> \o Observation_write_variables(b))>>,
                         "client_response")
    IN  Invoke(Observation_update_params, call, ns, result)

Observation_delete_params == <<Req("id")>>

Observation_delete(call, ns) ==
    LET b == Bind(Observation_delete_params, call, ns)
        result == Return(<<Mutation("deleteObservation", <<F("id", b.id)>>)>>, "client_response")
    IN  Invoke(Observation_delete_params, call, ns, result)

\* the variables a mutation string declares, with `!` (non-null) or without
D(name, nonnull) == [name |-> name, nonnull |-> nonnull]

Observation_write_declared ==
    <<D("pulsarName", TRUE), D("telescopeName", TRUE), D("projectCode", TRUE),
      D("calibrationId", TRUE), D("frequency", TRUE), D("bandwidth", TRUE),
      D("nchan", TRUE), D("beam", TRUE), D("nant", TRUE),
      D("nantEff", TRUE), D("npol", TRUE), D("obsType", TRUE),
      D("utcStart", TRUE), D("raj", TRUE), D("decj", TRUE),
      D("duration", TRUE), D("nbit", TRUE), D("tsamp", TRUE),
      D("ephemerisText", FALSE), D("foldNbin", FALSE), D("foldNchan", FALSE),
      D("foldTsubint", FALSE), D("filterbankNbit", FALSE), D("filterbankNpol", FALSE),
      D("filterbankNchan", FALSE), D("filterbankTsamp", FALSE), D("filterbankDm", FALSE)>>

(* --------------------------------- Toa --------------------------------- *)

Toa_filter_params ==
    <<Dflt("id", None), Dflt("pulsar", None), Dflt("pipeline_run_id", None),
      Dflt("dm_corrected", None), Dflt("minimum_nsubs", None),
      Dflt("maximum_nsubs", None), Dflt("obs_nchan", None)>>

\* the filter list built by both Toa.list and Toa.download
Toa_filters(b) ==
    <<F("id", b.id), F("pulsar", b.pulsar), F("pipelineRunId", b.pipeline_run_id),
      F("dmCorrected", b.dm_corrected), F("obsNchan", b.obs_nchan)>>
    \o (IF Truthy(b.minimum_nsubs) THEN <<F("minimumNsubs", b.minimum_nsubs)>> ELSE <<>>)
    \o (IF Truthy(b.maximum_nsubs) THEN <<F("maximumNsubs", b.maximum_nsubs)>> ELSE <<>>)

Toa_list_params == Toa_filter_params

Toa_list(call, ns) ==
    LET b == Bind(Toa_list_params, call, ns)
        result == Return(<<Query("toa", Toa_filters(b))>>, "list_result")
    IN  Invoke(Toa_list_params, call, ns, result)

Toa_create_params ==
    <<Req("pipeline_run_id"), Req("ephemeris_id"), Req("template_id"),
      Req("toa_lines"), Req("dmCorrected"), Req("minimumNsubs"), Req("maximumNsubs")>>

Toa_create(call, ns) ==
    LET b == Bind(Toa_create_params, call, ns)
        result == Return(<<Mutation("createToa",
                                    <<F("pipelineRunId", b.pipeline_run_id),
                                      F("ephemerisId", b.ephemeris_id),
                                      F("templateId", b.template_id),
                                      F("toaLines", b.toa_lines),
                                      F("dmCorrected", b.dmCorrected),
                                      F("minimumNsubs", b.minimumNsubs),
                                      F("maximumNsubs", b.maximumNsubs)>>)>>,
                         "client_response")
    IN  Invoke(Toa_create_params, call, ns, result)

Toa_delete_params == <<Req("id")>>

\* Toa_delete with the mutation_name of another table's delete
Toa_delete_names_template(call, ns) ==
    LET b == Bind(Toa_delete_params, call, ns)
        result == Return(<<Mutation("deleteTemplate", <<F("id", b.id)>>)>>, "client_response")
    IN  Invoke(Toa_delete_params, call, ns, result)

Toa_delete(call, ns) ==
    LET b == Bind(Toa_delete_params, call, ns)
        result == Return(<<Mutation("deleteToa", <<F("id", b.id)>>)>>, "client_response")
    IN  Invoke(Toa_delete_params, call, ns, result)

Toa_download_params ==
    <<Req("pulsar"), Dflt("id", None), Dflt("pipeline_run_id", None),
      Dflt("dm_corrected", None), Dflt("minimum_nsubs", None),
      Dflt("maximum_nsubs", None), Dflt("obs_nchan", None)>>

\* Toa.download lists the toas, writes them to the file output_name and
\* returns output_name
Toa_download(call, ns) ==
    LET b == Bind(Toa_download_params, call, ns)
        result == Return(<<Query("toa", Toa_filters(b))>>, "output_name")
    IN  Invoke(Toa_download_params, call, ns, result)

(* ------------------------------ process -------------------------------- *)

\* the exception of a client that fails while it sends a request
ClientError == "ClientError"

\* mutation_graphql and list_graphql hand the request of a method to the
\* client as the method's last step before it returns.  The client fails on
\* the fail_at-th request handed to it (on none when fail_at = 0) and `before`
\* requests were handed to it earlier: the method then raises the client's
\* exception instead of returning, no method catching anything.
client_send(r, before, fail_at) ==
    IF r.error = "none" /\ Len(r.sent) > 0 /\ fail_at = before + Len(r.sent)
    THEN Raise(ClientError, r.sent)
    ELSE r

Pulsar_process(sub, ns) ==
    CASE sub = "create" ->
            Pulsar_create(<<A("name"), A("comment")>>, ns)
      [] sub = "update" ->
            Pulsar_update(<<A("id"), A("name"), A("comment")>>, ns)
      [] sub = "list" ->
            Pulsar_list(<<A("id"), A("name")>>, ns)
      [] sub = "delete" ->
            Pulsar_delete(<<A("id")>>, ns)
      [] OTHER -> Raise("RuntimeError: command is not implemented", <<>>)

Calibration_process(sub, ns) ==
    CASE sub = "create" ->
            Calibration_create(<<A("delay_cal_id"), A("type"), A("location")>>, ns)
      [] sub = "list" ->
            Calibration_list(<<A("id"), A("type")>>, ns)
      [] sub = "update" ->
            Calibration_update(<<A("id"), A("type"), A("location")>>, ns)
      [] sub = "delete" ->
            Calibration_delete(<<A("id")>>, ns)
      [] OTHER -> Raise("RuntimeError: command is not implemented", <<>>)

\* the arguments Observation.process passes to create, and after args.id to
\* update
Observation_process_write_call ==
    <<A("target"), A("calibration"), A("telescope"), A("instrument_config"),
      A("project"), A("config"), A("utc"), A("duration"),
      A("nant"), A("nanteff"), A("suspect"), A("comment")>>

Observation_process(sub, ns) ==
    CASE sub = "create" ->
            Observation_create(Observation_process_write_call, ns)
      [] sub = "update" ->
            Observation_update(<<A("id")>> \o Observation_process_write_call, ns)
      [] sub = "list" ->
            Observation_list(<<K("id", "id"), K("pulsar_name", "pulsar"),
                     K("telescope_name", "telescope_name"),
                     K("project_id", "project_id"),
                     K("project_short", "project_code"),
                     K("utcs", "utcs"), K("utce", "utce")>>, ns)
      [] sub = "delete" ->
            Observation_delete(<<A("id")>>, ns)
      [] OTHER -> Raise("RuntimeError: command is not implemented", <<>>)

\* str.rstrip("\n")
RECURSIVE rstrip(_)
rstrip(line) ==
    IF Len(line) > 0 /\ line[Len(line)] = "\n"
    THEN rstrip(SubSeq(line, 1, Len(line) - 1))
    ELSE line

\* the arguments of the self.create call in the loop of Toa.process; the
\* fourth is the local variable input_toa_line
Toa_process_create_call ==
    <<A("pipeline_run_id"), A("ephemeris_id"), A("template_id"), A("input_toa_line"),
      A("dm_corrected"), A("minimumNsubs"), A("maximumNsubs")>>

\* `for toa_line in toa_lines[1:]` from line n on: `sent` are the requests
\* of the earlier iterations; an exception ends the loop, and a loop that
\* runs out returns None
RECURSIVE Toa_process_create(_, _, _, _, _)
Toa_process_create(toa_lines, n, ns, sent, fail_at) ==
    IF n > Len(toa_lines) THEN Return(sent, "None")
    ELSE LET input_toa_line == rstrip(toa_lines[n])
             r == client_send(Toa_create(Toa_process_create_call,
                                  ("input_toa_line" :> PyStr(input_toa_line)) @@ ns),
                              Len(sent), fail_at)
         IN  IF r.error # "none" THEN Raise(r.error, sent \o r.sent)
             ELSE Toa_process_create(toa_lines, n + 1, ns, sent \o r.sent, fail_at)

Toa_process(sub, ns, toa_lines, fail_at) ==
    CASE sub = "create" -> Toa_process_create(toa_lines, 2, ns, <<>>, fail_at)
      [] sub = "delete" ->
            client_send(Toa_delete(<<A("id")>>, ns), 0, fail_at)
      [] sub = "list" ->
            client_send(Toa_list(<<A("id"), A("processing"), A("folding"), A("ephemeris"),
                     A("template")>>, ns), 0, fail_at)
      [] sub = "download" ->
            client_send(Toa_download(<<A("pulsar"), A("id"), A("pipeline_run_id"), A("dm_corrected"),
                     A("minimum_nsubs"), A("maximum_nsubs"), A("nchan")>>, ns), 0, fail_at)
      [] OTHER -> Raise("RuntimeError: command is not implemented", <<>>)

(* --------------------- constructors and dispatch ----------------------- *)

\* the parameters of each __init__ after self
init_params(t) ==
    CASE t = "Pulsar" -> <<Req("client"), Req("token")>>
      [] t = "Calibration" -> <<Req("client")>>
      [] t = "Observation" -> <<Req("client"), Dflt("logger", None)>>
      [] t = "Toa" -> <<Req("client")>>

\* GraphQLTable.__init__ lies outside the sources at hand; Pulsar calls it
\* with (client, token), Observation with (client, logger), Calibration and
\* Toa with (client), and it is taken to accept all three
GraphQLTable_init_params == <<Req("client"), Dflt("token", None)>>

\* the arguments each __init__ passes on to GraphQLTable.__init__
base_init_call(t) ==
    CASE t = "Pulsar" -> <<A("client"), A("token")>>
      [] t = "Calibration" -> <<A("client")>>
      [] t = "Observation" -> <<A("client"), A("logger")>>
      [] t = "Toa" -> <<A("client")>>

\* whether constructing table t with the positional arguments `call`
\* succeeds; a failure is a TypeError
Constructs(t, call) ==
    /\ Fits(init_params(t), call)
    /\ Fits(GraphQLTable_init_params, base_init_call(t))

\* main constructs every table as c["table"](client, args.token)
main_init_call == <<A("client"), A("token")>>

\* table.process(args); toa_lines is the content of the file at
\* args.toa_path and the client fails on its fail_at-th request.  Every
\* branch of the process of Pulsar, Calibration and Observation returns what
\* one method returns, and that method sends one request as its last step.
process(t, sub, ns, toa_lines, fail_at) ==
    CASE t = "Pulsar" -> client_send(Pulsar_process(sub, ns), 0, fail_at)
      [] t = "Calibration" -> client_send(Calibration_process(sub, ns), 0, fail_at)
      [] t = "Observation" -> client_send(Observation_process(sub, ns), 0, fail_at)
      [] t = "Toa" -> Toa_process(sub, ns, toa_lines, fail_at)

(* ------------------------------- state --------------------------------- *)

VARIABLES
    pc,           \* where the run stands: "start", "parsed", "url_checked",
                  \* "dispatch", "done" (returned) or "raised" (left by an exception)
    entry,        \* "main": the psrdb script; "table": a caller that constructs
                  \* one table itself and calls its process
    command,      \* args.command: the get_name of the table the command line chose
    subcommand,   \* args.subcommand
    args,         \* the other attributes of the Namespace
    toa_file,     \* the lines of the file at args.toa_path
    i,            \* main's position in `configured`
    clients,      \* the number of GraphQLClient objects constructed
    constructed,  \* the tables constructed, in order
    processed,    \* the tables whose process was called, in order
    sent,         \* the requests handed to the client, in order
    error,        \* the exception that ended the run, "none" if none did
    response,     \* the kind of value the last process call returned
    printed,      \* what main has printed of the response, in order
    client_fails_at  \* the client fails on this request, counted from 1; 0: on none

vars == <<pc, entry, command, subcommand, args, toa_file, i, clients, constructed,
          processed, sent, error, response, printed, client_fails_at>>

Init ==
    /\ pc = "start"
    /\ entry = "main"
    /\ command = ""
    /\ subcommand = ""
    /\ args = [x \in {} |-> None]
    /\ toa_file = <<>>
    /\ i = 1
    /\ clients = 0
    /\ constructed = <<>>
    /\ processed = <<>>
    /\ sent = <<>>
    /\ error = "none"
    /\ response = "unset"
    /\ printed = <<>>
    /\ client_fails_at = 0

\* the most requests a command hands to the client: one, or one for each
\* line of the file after the first
MaxRequests(toa_lines) == IF Len(toa_lines) > 2 THEN Len(toa_lines) - 1 ELSE 1

\* parser.parse_args(): both sub-parser levels are required, so the command
\* names a table of `configured` and the subcommand one of its sub-parsers
parse_args ==
    /\ pc = "start"
    /\ \E c \in 1..Len(configured) :
        \E sub \in DOMAIN configure_parsers(configured[c].table) :
            LET specs == configure_parsers(configured[c].table)[sub]
            IN  /\ command' = configured[c].name
                /\ subcommand' = sub
                /\ \E e \in {"main", "table"} :
                     /\ entry' = e
                     /\ args' \in Namespaces(specs, Len(specs),
                                    IF e = "main" THEN DefaultNamespaces
                                    ELSE {ns \in DefaultNamespaces :
                                            /\ ~IsNone(ns.url) /\ ~IsNone(ns.token)
                                            /\ ~Truthy(ns.verbose)
                                            /\ ~Truthy(ns.very_verbose)},
                                    MaxGiven)
                /\ toa_file' \in (IF "toa_path" \in {specs[j].dest : j \in 1..Len(specs)}
                                  THEN Files ELSE {<<>>})
                /\ client_fails_at' \in 0..MaxRequests(toa_file')
    /\ pc' = "parsed"
    /\ UNCHANGED <<i, clients, constructed, processed, sent, error, response, printed>>

\* main_check_url with the test written on args.token
main_check_url_tests_token ==
    /\ pc = "parsed"
    /\ entry = "main"
    /\ IF IsNone(args.token)
       THEN pc' = "raised" /\ error' = "RuntimeError: GraphQL URL must be provided"
       ELSE pc' = "url_checked" /\ error' = error
    /\ UNCHANGED <<entry, command, subcommand, args, toa_file, i, clients, constructed,
                   processed, sent, response, printed, client_fails_at>>

\* `if args.url is None: raise RuntimeError(...)`
main_check_url ==
    /\ pc = "parsed"
    /\ entry = "main"
    /\ IF IsNone(args.url)
       THEN pc' = "raised" /\ error' = "RuntimeError: GraphQL URL must be provided"
       ELSE pc' = "url_checked" /\ error' = error
    /\ UNCHANGED <<entry, command, subcommand, args, toa_file, i, clients, constructed,
                   processed, sent, response, printed, client_fails_at>>

\* `if args.token is None: raise RuntimeError(...)`
main_check_token ==
    /\ pc = "url_checked"
    /\ IF IsNone(args.token)
       THEN pc' = "raised" /\ error' = "RuntimeError: GraphQL Token must be provided"
       ELSE pc' = "dispatch" /\ error' = error
    /\ UNCHANGED <<entry, command, subcommand, args, toa_file, i, clients, constructed,
                   processed, sent, response, printed, client_fails_at>>

\* whether a value of this kind has the attributes status_code and content.
\* mutation_graphql and list_graphql belong to GraphQLTable; by the
\* docstrings of the list methods list_graphql returns a client response
\* unless self.get_dicts is set, and process sets it for no list
HasStatusCode(resp) == resp \in {"client_response", "list_result"}

\* `if args.verbose or args.very_verbose:` print(response.status_code) and
\* print(json.loads(response.content)): the exception raised and what was
\* printed
main_print(resp, ns) ==
    IF ~(Truthy(ns.verbose) \/ Truthy(ns.very_verbose))
    THEN [error |-> "none", printed |-> <<>>]
    ELSE IF ~HasStatusCode(resp)
    THEN [error |-> "AttributeError: status_code", printed |-> <<>>]
    ELSE [error |-> "none", printed |-> <<"status_code", "content">>]

\* the outcome of constructing table t with `call`, calling its process and
\* printing the response: the body of `if args.command == c["name"]:`
construct_and_process(t, call) ==
    IF ~Constructs(t, call)
    THEN /\ pc' = "raised"
         /\ error' = "TypeError: __init__()"
         /\ UNCHANGED <<constructed, processed, sent, response, printed>>
    ELSE LET r == process(t, subcommand, args, toa_file, client_fails_at)
             p == main_print(r.response, args)
         IN  /\ constructed' = Append(constructed, t)
             /\ processed' = Append(processed, t)
             /\ sent' = sent \o r.sent
             /\ response' = r.response
             /\ IF r.error # "none"
                THEN error' = r.error /\ printed' = printed /\ pc' = "raised"
                ELSE /\ error' = p.error
                     /\ printed' = printed \o p.printed
                     /\ pc' = IF p.error = "none" THEN pc ELSE "raised"

\* `args.command == c["name"]` for the i-th entry of `configured`
args_command_matches(n) == command = configured[n].name

\* one iteration of `for c in configured:`
main_dispatch ==
    /\ pc = "dispatch"
    /\ i <= Len(configured)
    /\ IF args_command_matches(i)
       THEN /\ clients' = clients + 1
            /\ construct_and_process(configured[i].table, main_init_call)
       ELSE /\ pc' = pc
            /\ UNCHANGED <<clients, constructed, processed, sent, error, response, printed>>
    /\ i' = i + 1
    /\ UNCHANGED <<entry, command, subcommand, args, toa_file, client_fails_at>>

\* the loop has run out: main returns
main_return ==
    /\ pc = "dispatch"
    /\ i > Len(configured)
    /\ pc' = "done"
    /\ UNCHANGED <<entry, command, subcommand, args, toa_file, i, clients, constructed,
                   processed, sent, error, response, printed, client_fails_at>>

\* the table named by the command
TableOf(name) == CHOOSE t \in {tables[j] : j \in 1..Len(tables)} : get_name(t) = name

\* the arguments a caller that knows the table's __init__ passes: one for
\* each required parameter
own_init_call(t) ==
    SelectSeq([j \in 1..Len(init_params(t)) |-> A(init_params(t)[j].name)],
              LAMBDA a : init_params(t)[ParamIndex(init_params(t), a.attr)].req)

\* a caller other than main constructs the table with the arguments its
\* __init__ requires and calls process(args); nothing follows the call
table_process ==
    /\ pc = "parsed"
    /\ entry = "table"
    /\ clients' = clients + 1
    /\ constructed' = Append(constructed, TableOf(command))
    /\ processed' = Append(processed, TableOf(command))
    /\ LET r == process(TableOf(command), subcommand, args, toa_file, client_fails_at)
       IN  /\ sent' = sent \o r.sent
           /\ error' = r.error
           /\ response' = r.response
           /\ pc' = IF r.error = "none" THEN "done" ELSE "raised"
    /\ UNCHANGED <<entry, command, subcommand, args, toa_file, i, printed, client_fails_at>>

Next ==
    \/ parse_args
    \/ main_check_url
    \/ main_check_token
    \/ main_dispatch
    \/ main_return
    \/ table_process

Spec == Init /\ [][Next]_vars

(* ------------------------------ claims --------------------------------- *)

Finished == pc \in {"done", "raised"}

UrlError == "RuntimeError: GraphQL URL must be provided"

TokenError == "RuntimeError: GraphQL Token must be provided"

NotImplemented == "RuntimeError: command is not implemented"

SameValue(x, y) == x.k = y.k /\ x.v = y.v

\* the payload binds `field` to `value`
Has(payload, field, value) ==
    \E j \in 1..Len(payload) :
        payload[j].field = field /\ SameValue(payload[j].value, value)

\* process has been called on table t, and on no other, for subcommand sub
Processed(t, sub) == processed = <<t>> /\ subcommand = sub

\* main got past both checks of the URL and the token
PastChecks == entry = "main" /\ pc \in {"dispatch", "done", "raised"}
              /\ ~IsNone(args.url) /\ ~IsNone(args.token)

\* C1: when main ends for a command line with URL and token, process has
\* been called on exactly one table, the one whose get_name is args.command;
\* and the get_name of the four tables are pairwise distinct.
C1_ProcessOnExactlyTheNamedTable ==
    /\ \A a, b \in 1..Len(tables) : a # b => get_name(tables[a]) # get_name(tables[b])
    /\ (PastChecks /\ Finished) => processed = <<TableOf(command)>>

\* C2: whenever main has constructed the client for the matching entry of
\* `configured`, the table was constructed with (client, token) and its
\* process was reached: the run is not ended by a TypeError of __init__.
C2_ConstructionSucceeds ==
    (entry = "main" /\ clients > 0) =>
        /\ error # "TypeError: __init__()"
        /\ Len(constructed) = clients
        /\ processed = constructed

\* C3: once main is past parse_args with args.url None it has raised the URL
\* RuntimeError (also when the token is missing too); past the URL check with
\* only args.token None it has raised the token RuntimeError; and in both
\* cases no client and no table was constructed and no request was sent.
C3_MissingUrlOrTokenRaises ==
    (entry = "main" /\ pc \notin {"start", "parsed"}) =>
        /\ IsNone(args.url) => (pc = "raised" /\ error = UrlError)
        /\ (~IsNone(args.url) /\ IsNone(args.token) /\ pc # "url_checked")
              => (pc = "raised" /\ error = TokenError)
        /\ (IsNone(args.url) \/ IsNone(args.token))
              => (clients = 0 /\ constructed = <<>> /\ processed = <<>> /\ sent = <<>>)

\* C3 witness: main has raised with both the URL and the token missing
C3_Witness_BothMissing ==
    /\ entry = "main" /\ pc = "raised"
    /\ IsNone(args.url) /\ IsNone(args.token)
    /\ error = UrlError

\* C4: a process that was called for a subcommand its configure_parsers
\* registers never ends in the "command is not implemented" RuntimeError.
C4_EveryRegisteredSubcommandHandled ==
    (processed # <<>> /\ subcommand \in DOMAIN configure_parsers(TableOf(command)))
        => error # NotImplemented

\* C5: after Calibration.process for `update`, exactly one request was sent,
\* the updateCalibration mutation, binding id to args.id, calibration_type to
\* args.type and location to args.location.
C5_CalibrationUpdateSendsMutation ==
    Processed("Calibration", "update") =>
        /\ Len(sent) = 1
        /\ sent[1].op = "mutation" /\ sent[1].name = "updateCalibration"
        /\ Has(sent[1].payload, "id", args.id)
        /\ Has(sent[1].payload, "calibration_type", args.type)
        /\ Has(sent[1].payload, "location", args.location)

\* the values the command line gave
GivenValues == {args[a] : a \in DOMAIN args}

\* C6: after Observation.process for `create` (`update`), exactly one request
\* was sent, the createObservation (updateObservation) mutation, and every
\* variable the mutation declares non-null is bound to a value given on the
\* command line.
C6_ObservationWriteSendsMutation ==
    \A sub \in {"create", "update"} :
        Processed("Observation", sub) =>
            /\ Len(sent) = 1
            /\ sent[1].op = "mutation"
            /\ sent[1].name = (IF sub = "create" THEN "createObservation"
                               ELSE "updateObservation")
            /\ \A j \in 1..Len(Observation_write_declared) :
                  Observation_write_declared[j].nonnull =>
                      \E h \in 1..Len(sent[1].payload) :
                          /\ sent[1].payload[h].field = Observation_write_declared[j].name
                          /\ ~IsNone(sent[1].payload[h].value)
                          /\ \E g \in GivenValues : SameValue(g, sent[1].payload[h].value)

\* a line without its trailing newline
WithoutNewline(line) ==
    IF Len(line) > 0 /\ line[Len(line)] = "\n" THEN SubSeq(line, 1, Len(line) - 1)
    ELSE line

\* the createToa mutation the claim expects for one line of the file
ExpectedCreateToa(line) ==
    Mutation("createToa",
             <<F("pipelineRunId", args.pipeline_run_id),
               F("ephemerisId", args.ephemeris_id),
               F("templateId", args.template_id),
               F("toaLines", PyStr(WithoutNewline(line))),
               F("dmCorrected", args.dm_corrected),
               F("minimumNsubs", args.minimum_nsubs),
               F("maximumNsubs", args.maximum_nsubs)>>)

\* C7: after Toa.process for `create` on a file of n lines, the requests sent
\* are max(n-1, 0) createToa mutations, one for each line after the first, in
\* file order, each with that line without its trailing newline, the three
\* ids and the values of the three flags.
C7_ToaCreateSendsOnePerDataLine ==
    Processed("Toa", "create") =>
        /\ Len(sent) = (IF Len(toa_file) > 0 THEN Len(toa_file) - 1 ELSE 0)
        /\ \A j \in 1..Len(sent) : sent[j] = ExpectedCreateToa(toa_file[j + 1])

\* the filter fields of Toa.list that no option of `toa list` names
ToaFieldsWithoutOption ==
    {"pulsar", "dmCorrected", "obsNchan", "minimumNsubs", "maximumNsubs"}

\* C8: after Toa.process for `list`, one query was sent; its id filter is
\* args.id, and no option's value is bound to a filter on a field that no
\* option names (pulsar, dmCorrected, obsNchan, minimumNsubs, maximumNsubs).
C8_ToaListBindsOptionsToTheirFields ==
    Processed("Toa", "list") =>
        /\ Len(sent) = 1
        /\ sent[1].op = "query"
        /\ Has(sent[1].payload, "id", args.id)
        /\ \A j \in 1..Len(sent[1].payload) :
              sent[1].payload[j].field \in ToaFieldsWithoutOption
                  => IsNone(sent[1].payload[j].value)

\* C9: after Pulsar.process for `list`, the filter list of the query holds a
\* filter on id with args.id when --id was given, and a filter on name with
\* args.name when --name was given.
C9_PulsarListFiltersOnIdAndName ==
    Processed("Pulsar", "list") =>
        /\ Len(sent) = 1
        /\ ~IsNone(args.id) => Has(sent[1].payload, "id", args.id)
        /\ ~IsNone(args.name) => Has(sent[1].payload, "name", args.name)

\* the format of the help text of --utcs and --utce,
\* YYYY-MM-DDTHH:MM:SS+HH:MM
HelpTimeFormat ==
    <<"%Y", "-", "%m", "-", "%d", "T", "%H", ":", "%M", ":", "%S", "+", "%H", ":", "%M">>

InHelpFormat(x) == x.k = "str" /\ strptime(x.v, HelpTimeFormat).ok

\* C10: after Observation.process for `list` with --utcs and --utce each
\* absent or written as YYYY-MM-DDTHH:MM:SS+HH:MM, nothing was raised (but by
\* a client that fails) and the query filters utcStartGte and utcStartLte on
\* the values given.
C10_ObservationListAcceptsHelpFormat ==
    (/\ Processed("Observation", "list")
     /\ IsNone(args.utcs) \/ InHelpFormat(args.utcs)
     /\ IsNone(args.utce) \/ InHelpFormat(args.utce)) =>
        /\ error \in {"none", ClientError}
        /\ Len(sent) = 1
        /\ Has(sent[1].payload, "utcStartGte", args.utcs)
        /\ Has(sent[1].payload, "utcStartLte", args.utce)

\* the options of `observation list` the claim C11 is about
ObservationListIdOptions ==
    {"target_id", "telescope_id", "instrumentconfig_id", "instrumentconfig_name"}

\* some filter of the payload carries `value`
HasValue(payload, value) ==
    \E j \in 1..Len(payload) : SameValue(payload[j].value, value)

\* C11: after Observation.process for `list` has returned, for each of
\* --target_id, --telescope_id, --instrumentconfig_id and
\* --instrumentconfig_name that the command line gave, the filter list of the
\* query sent holds a filter with the option's value.
C11_ObservationListFiltersOnIdOptions ==
    (Processed("Observation", "list") /\ error = "none") =>
        /\ Len(sent) = 1
        /\ sent[1].op = "query"
        /\ \A o \in ObservationListIdOptions :
              ~IsNone(args[o]) => HasValue(sent[1].payload, args[o])

\* C12: whenever a process has returned, what it returned is the client
\* response of its request (for list and download, the value the docstring
\* promises), and main's printing of response.status_code and
\* response.content under --verbose or --very_verbose never raises.
C12_ProcessReturnsAResponse ==
    /\ (processed # <<>> /\ error = "none") => HasStatusCode(response)
    /\ error # "AttributeError: status_code"

\* the mutation_name the claim C13 expects of each table's delete
DeleteMutationName(t) ==
    CASE t = "Pulsar" -> "deletePulsar"
      [] t = "Calibration" -> "deleteCalibration"
      [] t = "Observation" -> "deleteObservation"
      [] t = "Toa" -> "deleteToa"

\* C13: after the process of Pulsar, Calibration, Observation or Toa for
\* `delete`, which calls delete(args.id), exactly one request was sent: the
\* mutation named delete<Table> whose variables are id, bound to args.id,
\* and nothing else; and nothing was raised but by the client sending it.
C13_DeleteSendsOneMutationWithId ==
    \A j \in 1..Len(tables) :
        Processed(tables[j], "delete") =>
            /\ error = (IF client_fails_at = 1 THEN ClientError ELSE "none")
            /\ Len(sent) = 1
            /\ sent[1].op = "mutation"
            /\ sent[1].name = DeleteMutationName(tables[j])
            /\ Len(sent[1].payload) = 1
            /\ sent[1].payload[1].field = "id"
            /\ SameValue(sent[1].payload[1].value, args.id)

\* C13 witness: Toa.process for `delete` has sent the deleteToa mutation
C13_Witness_ToaDeleteSent ==
    /\ Processed("Toa", "delete")
    /\ pc = "done"
    /\ Len(sent) = 1
    /\ sent[1].name = "deleteToa"
    /\ ~IsNone(args.id)

\* the client has failed: the request it fails on was handed to it
ClientFailed == client_fails_at # 0 /\ Len(sent) >= client_fails_at

\* the number of lines of the file after the first
DataLineCount == IF Len(toa_file) > 0 THEN Len(toa_file) - 1 ELSE 0

====
